---------------------------- MODULE Spec2Model ----------------------------
(***************************************************************************)
(* Model of the PIA backend (personal income / expense tracking):          *)
(*   routes/auth.js     create-first-user, login, change-password          *)
(*   routes/income.js   POST / GET / GET:id / PUT:id / DELETE:id           *)
(*   routes/expense.js  POST / GET / GET:id / PUT:id / DELETE:id           *)
(*   server.js          route mounting                                     *)
(*   models/Expense.js, models/Income.js   the schemas                     *)
(* middleware/auth.js and models/User.js are not part of the sources at    *)
(* hand; the guard, the password hashing on save and the unique username   *)
(* are modelled from the specification.                                    *)
(*                                                                         *)
(* Every await of a handler that separates a read of the store from a      *)
(* later write (findOne ... save) is a point where other requests run, so  *)
(* such handlers are two actions with the request parked in between.       *)
(***************************************************************************)
EXTENDS Integers, Sequences, FiniteSets, TLC

VARIABLES
  users,      \* the User collection: set of [id, username, password]
  regs,       \* create-first-user requests parked between findOne and save
  issued,     \* every token jwt.sign has produced so far
  now,        \* the clock, in ticks
  incomes,    \* the Income collection: set of documents
  expenses,   \* the Expense collection: set of documents
  puts,       \* PUT requests parked between findOne and save
  nextId,     \* the next document id (ObjectIds are unique across collections)
  gone,       \* history: ids removed by a successful DELETE
  hist,       \* history: per Expense id, its creator and its images at creation
              \* followed by the files of every PUT answered 200
  made,       \* history: [username, password, id] of every 201 of create-first-user
  resp        \* the last response sent, with the request it answers

vars == <<users, regs, issued, now, incomes, expenses, puts, nextId, gone, hist, made, resp>>

authVars == <<users, regs, issued, made>>
resVars  == <<incomes, expenses, puts, nextId, gone, hist>>

---------------------------------------------------------------------------
(* Bounds of the model. *)

MaxTime    == 2    \* the clock stops here
MaxTokens  == 2    \* tokens login issues in one run
MaxRegs    == 2    \* create-first-user requests in flight at once
MaxDocs    == 2    \* documents ever created
MaxPuts    == 1    \* PUT requests in flight at once
MaxRacing  == 2    \* PUT requests in flight at once in the update race
MaxImages  == 1    \* longest images sequence an update may produce
MaxVersion == 1    \* highest __v an update may produce
MaxItems   == 1    \* longest items sequence a request carries

(* expiresIn: '1d', in ticks of the model's clock. *)
TokenLifetime == 2

Usernames == {"alice", "bob"}
Passwords == {"pw1", "pw2"}

---------------------------------------------------------------------------
(* Credentials carried by a request. *)

NoCred    == [kind |-> "none",      userId |-> 0, iat |-> 0, exp |-> 0, sig |-> "none"]
Malformed == [kind |-> "malformed", userId |-> 0, iat |-> 0, exp |-> 0, sig |-> "none"]

(* jwt.sign({ userId }, JWT_SECRET, { expiresIn: '1d' }) at time t *)
JwtSign(uid, t) ==
  [kind |-> "jwt", userId |-> uid, iat |-> t, exp |-> t + TokenLifetime, sig |-> "server"]

(* A token signed with another key. *)
Forge(tok) == [tok EXCEPT !.sig = "forged"]

(* jwt.verify: the signature is the server's and the token has not expired. *)
JwtVerify(tok, t) == tok.kind = "jwt" /\ tok.sig = "server" /\ t < tok.exp

(* What a client can put in the Authorization header. *)
Creds == {NoCred, Malformed} \cup issued \cup {Forge(tok) : tok \in issued}

(* req.user when the request has not passed through the guard *)
Undefined == [userId |-> 0, set |-> FALSE]

(* middleware/auth.js: 401 unless a bearer token is present and verifies;  *)
(* on success req.user = the decoded claims.                               *)
AuthPasses(cred) == JwtVerify(cred, now)
AuthUser(cred)   == [userId |-> cred.userId, set |-> TRUE]

---------------------------------------------------------------------------
(* Passwords.  The User model hashes the password when it is saved.        *)

Hash(p) == <<"bcrypt", p>>

(* Mutant: the stored value is compared with the plain password. *)
PlainCompare(p, h) == h = p

(* bcrypt.compare(plain, hash) *)
BcryptCompare(p, h) == h = Hash(p)

(* User.findOne({ username }) *)
FindUserByName(u) == {x \in users : x.username = u}

(* User.findById(id) *)
FindUserById(id) == {x \in users : x.id = id}

---------------------------------------------------------------------------
(* Responses.  authed: the request carried a token that verifies; user:   *)
(* the userId of that token (0 otherwise).                                 *)

NoDoc == [id |-> 0]

Verified(cred) == JwtVerify(cred, now)
Bearer(cred)   == IF Verified(cred) THEN cred.userId ELSE 0

Reply(op, kind, cred, uname, pw, id, status, msg, tok, doc, list, fault) ==
  [op |-> op, kind |-> kind, authed |-> Verified(cred), user |-> Bearer(cred),
   username |-> uname, password |-> pw,
   id |-> id, at |-> now, status |-> status, msg |-> msg,
   token |-> tok, doc |-> doc, list |-> list, fault |-> fault]

(* The reply to a parked PUT, which passed the guard as user q.user. *)
PutReply(q, status, msg, doc, fault) ==
  [op |-> "put", kind |-> q.kind, authed |-> TRUE, user |-> q.user,
   username |-> "", password |-> "",
   id |-> q.doc.id, at |-> now, status |-> status, msg |-> msg,
   token |-> NoCred, doc |-> doc, list |-> <<>>, fault |-> fault]

NoResp == Reply("none", "none", NoCred, "", "", 0, 0, "", NoCred, NoDoc, <<>>, FALSE)

(* A reply of the auth router. *)
AuthReply(op, cred, uname, pw, status, msg, tok) ==
  Reply(op, "user", cred, uname, pw, 0, status, msg, tok, NoDoc, <<>>, FALSE)

---------------------------------------------------------------------------
(* routes/auth.js *)

(* POST /create-first-user, up to the await of user.save(): findOne, and   *)
(* 400 when the username is taken; otherwise the request is parked.        *)
CreateFirstUserFind(u, p) ==
  /\ IF FindUserByName(u) # {}
       THEN /\ resp' = AuthReply("create-first-user", NoCred, u, p, 400,
                                 "User already exists", NoCred)
            /\ regs' = regs
       ELSE /\ Cardinality(regs) < MaxRegs
            /\ [username |-> u, password |-> p] \notin regs
            /\ regs' = regs \cup {[username |-> u, password |-> p]}
            /\ resp' = resp
  /\ UNCHANGED <<users, issued, made, now>>
  /\ UNCHANGED resVars

(* user.save() of a new user: the unique index on username rejects a       *)
(* duplicate, which the handler's catch turns into a 500.                  *)
UserInsert(r) ==
  IF FindUserByName(r.username) # {}
    THEN [ok |-> FALSE, users |-> users, id |-> 0]
    ELSE [ok |-> TRUE, id |-> Cardinality(users) + 1,
          users |-> users \cup {[id |-> Cardinality(users) + 1,
                                 username |-> r.username,
                                 password |-> Hash(r.password)]}]

(* POST /create-first-user, from user.save() on. *)
CreateFirstUserSave(r) ==
  /\ r \in regs
  /\ regs' = regs \ {r}
  /\ LET ins == UserInsert(r) IN
       /\ users' = ins.users
       /\ IF ins.ok
            THEN /\ resp' = AuthReply("create-first-user", NoCred, r.username, r.password,
                                      201, "User created successfully", NoCred)
                 /\ made' = made \cup {[username |-> r.username,
                                        password |-> r.password, id |-> ins.id]}
            ELSE /\ resp' = AuthReply("create-first-user", NoCred, r.username, r.password,
                                      500, "E11000 duplicate key error", NoCred)
                 /\ made' = made
  /\ UNCHANGED <<issued, now>>
  /\ UNCHANGED resVars

(* Mutant: an unknown username gets an answer of its own. *)
LoginReplyTelling(u, p) ==
  LET found == FindUserByName(u) IN
  IF found = {}
    THEN AuthReply("login", NoCred, u, p, 404, "User not found", NoCred)
    ELSE LET user == CHOOSE x \in found : TRUE IN
         IF ~BcryptCompare(p, user.password)
           THEN AuthReply("login", NoCred, u, p, 401, "Invalid credentials", NoCred)
           ELSE AuthReply("login", NoCred, u, p, 200, "", JwtSign(user.id, now))

(* The response of POST /login. *)
LoginReply(u, p) ==
  LET found == FindUserByName(u) IN
  IF found = {}
    THEN AuthReply("login", NoCred, u, p, 401, "Invalid credentials", NoCred)
    ELSE LET user == CHOOSE x \in found : TRUE IN
         IF ~BcryptCompare(p, user.password)
           THEN AuthReply("login", NoCred, u, p, 401, "Invalid credentials", NoCred)
           ELSE AuthReply("login", NoCred, u, p, 200, "", JwtSign(user.id, now))

(* POST /login *)
Login(u, p) ==
  /\ LoginReply(u, p).status = 200 =>
       (LoginReply(u, p).token \in issued \/ Cardinality(issued) < MaxTokens)
  /\ resp' = LoginReply(u, p)
  /\ issued' = IF resp'.status = 200 THEN issued \cup {resp'.token} ELSE issued
  /\ UNCHANGED <<users, regs, made, now>>
  /\ UNCHANGED resVars

(* req.user as the change-password handler sees it: the auth router is     *)
(* mounted without the guard and the route names none, so nothing has set  *)
(* req.user whatever the Authorization header holds.                       *)
ChangePasswordUser(cred) == Undefined

(* POST /change-password *)
ChangePassword(cred, cur, new) ==
  LET reqUser == ChangePasswordUser(cred) IN
  /\ IF ~reqUser.set
       THEN \* req.user.userId throws a TypeError inside the try
            /\ resp' = AuthReply("change-password", cred, "", cur, 500,
                                 "Cannot read properties of undefined", NoCred)
            /\ users' = users
            /\ made' = made
       ELSE LET found == FindUserById(reqUser.userId) IN
            IF found = {}
              THEN /\ resp' = AuthReply("change-password", cred, "", cur, 404,
                                        "User not found", NoCred)
                   /\ users' = users
                   /\ made' = made
              ELSE LET user == CHOOSE x \in found : TRUE IN
                   IF ~BcryptCompare(cur, user.password)
                     THEN /\ resp' = AuthReply("change-password", cred, user.username, cur,
                                               401, "Current password is incorrect", NoCred)
                          /\ users' = users
                          /\ made' = made
                     ELSE /\ users' = (users \ {user})
                                        \cup {[user EXCEPT !.password = Hash(new)]}
                          /\ made' = {m \in made : m.id # user.id}
                          /\ resp' = AuthReply("change-password", cred, user.username, cur,
                                               200, "Password changed successfully", NoCred)
  /\ UNCHANGED <<regs, issued, now>>
  /\ UNCHANGED resVars

(* Time passes. *)
Tick ==
  /\ now < MaxTime
  /\ now' = now + 1
  /\ UNCHANGED <<users, regs, issued, made, resp>>
  /\ UNCHANGED resVars

---------------------------------------------------------------------------
(* The credential lifecycle: nobody registered, nothing stored. *)

Init ==
  /\ users = {}
  /\ regs = {}
  /\ issued = {}
  /\ now = 0
  /\ incomes = {}
  /\ expenses = {}
  /\ puts = {}
  /\ nextId = 1
  /\ gone = {}
  /\ hist = <<>>
  /\ made = {}
  /\ resp = NoResp

Next ==
  \/ \E u \in Usernames, p \in Passwords : CreateFirstUserFind(u, p)
  \/ \E r \in regs : CreateFirstUserSave(r)
  \/ \E u \in Usernames, p \in Passwords : Login(u, p)
  \/ \E c \in Creds, cur \in Passwords, new \in Passwords : ChangePassword(c, cur, new)
  \/ Tick

Spec == Init /\ [][Next]_vars

---------------------------------------------------------------------------
(* Request bodies.  A multipart field is text: a number, absent, or text   *)
(* that is no number.  The schema's Number fields are required, so only a  *)
(* number passes validation, and it is stored as its value.                *)

Num(n)   == [t |-> "num", v |-> n]
Absent   == [t |-> "absent", v |-> 0]
Text     == [t |-> "text", v |-> 0]
IsNumber(x) == x.t = "num"

AmountInputs == {Num(10), Num(20), Absent, Text}
TotalInputs  == {Num(3), Absent}
Notes        == {"note"}
FileNames    == {"a.png"}

(* multer.diskStorage: the file lands in uploads/ as Date.now()-originalname *)
StoredFile(name) == [path |-> <<"uploads/", now, name>>, filename |-> <<now, name>>]

(* slip: null *)
NoSlip == [path |-> <<>>, filename |-> <<>>]
NoFile == ""

DocIds == 1..MaxDocs

(* Mutant: the lookup is by _id alone. *)
FindOneAnyOwner(coll, id, uid) == {d \in coll : d.id = id}

(* Model.findOne({ _id, createdBy }) *)
FindOne(coll, id, uid) == {d \in coll : d.id = id /\ d.createdBy = uid}

(* .sort({ createdAt: -1 }): newest first; ids grow with creation time. *)
RECURSIVE SortDesc(_)
SortDesc(S) ==
  IF S = {} THEN <<>>
  ELSE LET m == CHOOSE d \in S : \A e \in S : e.id <= d.id
       IN <<m>> \o SortDesc(S \ {m})

(* Model.find({ createdBy }).sort({ createdAt: -1 }) *)
FindByOwner(coll, uid) == SortDesc({d \in coll : d.createdBy = uid})

(* A reply of the income or expense router. *)
ResReply(op, kind, cred, id, status, msg, doc, list, fault) ==
  Reply(op, kind, cred, "", "", id, status, msg, NoCred, doc, list, fault)

(* The guard's answer: the middleware replies before any route handler    *)
(* runs, the same for every route it guards.                               *)
Unauthorized(op, kind, cred, id) ==
  ResReply("auth", "none", cred, 0, 401, "Unauthorized", NoDoc, <<>>, FALSE)

(* The bodies to try with credentials c: the guard answers a request it    *)
(* rejects before the body is read, so one body stands for all of them.    *)
Bodies(c, S) == IF AuthPasses(c) THEN S ELSE {CHOOSE x \in S : TRUE}

(* The bodies to try when the store call is to fail: validation comes      *)
(* before the store call, so one valid body ok stands for all.             *)
Tried(c, fail, S, ok) == IF fail THEN {ok} ELSE Bodies(c, S)

(* Ids of the documents created so far in each collection. *)
ExpenseIds == DOMAIN hist
IncomeIds  == (1..(nextId - 1)) \ ExpenseIds

(* The slot a parked PUT takes. *)
FreeSlot == CHOOSE n \in 1..(Cardinality(puts) + 1) : \A q \in puts : q.slot # n

---------------------------------------------------------------------------
(* routes/income.js *)

(* POST /api/incomes: the catch answers 400 whatever was thrown. *)
IncomeCreate(cred, amount, notes, file, fail) ==
  /\ ExpenseIds = {}    \* a run works on one collection
  /\ IF ~AuthPasses(cred)
       THEN /\ resp' = Unauthorized("create", "income", cred, 0)
            /\ UNCHANGED <<incomes, nextId>>
       ELSE IF ~IsNumber(amount)
         THEN /\ resp' = ResReply("create", "income", cred, 0, 400,
                                  "Income validation failed: amount", NoDoc, <<>>, FALSE)
              /\ UNCHANGED <<incomes, nextId>>
         ELSE IF fail
           THEN /\ resp' = ResReply("create", "income", cred, 0, 400,
                                    "store failure", NoDoc, <<>>, TRUE)
                /\ UNCHANGED <<incomes, nextId>>
           ELSE LET income == [id |-> nextId, amount |-> amount.v, notes |-> notes,
                               createdBy |-> AuthUser(cred).userId,
                               slip |-> IF file # NoFile THEN StoredFile(file) ELSE NoSlip]
                IN /\ nextId <= MaxDocs
                   /\ incomes' = incomes \cup {income}
                   /\ nextId' = nextId + 1
                   /\ resp' = ResReply("create", "income", cred, income.id, 201, "",
                                       income, <<>>, FALSE)
  /\ UNCHANGED <<expenses, puts, gone, hist, now>>
  /\ UNCHANGED authVars

(* GET /api/incomes *)
IncomeList(cred, fail) ==
  /\ ExpenseIds = {}    \* a run works on one collection
  /\ resp' = IF ~AuthPasses(cred) THEN Unauthorized("list", "income", cred, 0)
             ELSE IF fail
               THEN ResReply("list", "income", cred, 0, 500, "store failure",
                             NoDoc, <<>>, TRUE)
               ELSE ResReply("list", "income", cred, 0, 200, "", NoDoc,
                             FindByOwner(incomes, AuthUser(cred).userId), FALSE)
  /\ UNCHANGED <<now>>
  /\ UNCHANGED resVars
  /\ UNCHANGED authVars

(* The response of GET /api/incomes/:id *)
IncomeGetReply(cred, id, fail) ==
  IF ~AuthPasses(cred) THEN Unauthorized("get", "income", cred, id)
  ELSE IF fail
    THEN ResReply("get", "income", cred, id, 500, "store failure", NoDoc, <<>>, TRUE)
    ELSE LET found == FindOne(incomes, id, AuthUser(cred).userId) IN
         IF found = {}
           THEN ResReply("get", "income", cred, id, 404, "Income record not found",
                         NoDoc, <<>>, FALSE)
           ELSE ResReply("get", "income", cred, id, 200, "",
                         CHOOSE d \in found : TRUE, <<>>, FALSE)

(* GET /api/incomes/:id *)
IncomeGetById(cred, id, fail) ==
  /\ ExpenseIds = {}    \* a run works on one collection
  /\ resp' = IncomeGetReply(cred, id, fail)
  /\ UNCHANGED <<now>>
  /\ UNCHANGED resVars
  /\ UNCHANGED authVars

(* PUT /api/incomes/:id up to the await of income.save(): the guard, the   *)
(* owner-scoped findOne, 404 when it finds nothing; the catch answers 400. *)
IncomePutFind(cred, id, fail, cap) ==
  /\ ExpenseIds = {}    \* a run works on one collection
  /\ IF ~AuthPasses(cred)
       THEN resp' = Unauthorized("put", "income", cred, id) /\ puts' = puts
       ELSE IF fail
         THEN /\ resp' = ResReply("put", "income", cred, id, 400, "store failure",
                                  NoDoc, <<>>, TRUE)
              /\ puts' = puts
         ELSE LET found == FindOne(incomes, id, AuthUser(cred).userId) IN
              IF found = {}
                THEN /\ resp' = ResReply("put", "income", cred, id, 404,
                                         "Income record not found", NoDoc, <<>>, FALSE)
                     /\ puts' = puts
                ELSE /\ Cardinality(puts) < cap
                     /\ puts' = puts \cup {[slot |-> FreeSlot, kind |-> "income",
                                            user |-> AuthUser(cred).userId,
                                            doc |-> CHOOSE d \in found : TRUE]}
                     /\ resp' = resp
  /\ UNCHANGED <<incomes, expenses, nextId, gone, hist, now>>
  /\ UNCHANGED authVars

(* income.save() of a document read earlier: an update by _id of the paths *)
(* whose value was changed; no document with that _id is an error.         *)
IncomeSave(snap, mem) ==
  LET cur == {d \in incomes : d.id = snap.id} IN
  IF mem = snap THEN [ok |-> TRUE, coll |-> incomes]
  ELSE IF cur = {} THEN [ok |-> FALSE, coll |-> incomes]
  ELSE LET c == CHOOSE d \in cur : TRUE
           n == [c EXCEPT !.amount = IF mem.amount # snap.amount THEN mem.amount ELSE @,
                          !.notes  = IF mem.notes # snap.notes THEN mem.notes ELSE @,
                          !.slip   = IF mem.slip # snap.slip THEN mem.slip ELSE @]
       IN [ok |-> TRUE, coll |-> (incomes \ {c}) \cup {n}]

(* PUT /api/incomes/:id from the assignments on. *)
IncomePutSave(q, amount, notes, file, fail) ==
  /\ ExpenseIds = {}    \* a run works on one collection
  /\ q \in puts /\ q.kind = "income"
  /\ puts' = puts \ {q}
  /\ IF ~IsNumber(amount)
       THEN /\ resp' = PutReply(q, 400, "Income validation failed: amount", NoDoc, FALSE)
            /\ incomes' = incomes
       ELSE LET mem == [q.doc EXCEPT !.amount = amount.v, !.notes = notes,
                                     !.slip = IF file # NoFile THEN StoredFile(file) ELSE @]
                res == IncomeSave(q.doc, mem)
            IN IF (fail /\ mem # q.doc) \/ ~res.ok
                 THEN /\ resp' = PutReply(q, 400, IF fail THEN "store failure"
                                                   ELSE "No document found for query",
                                          NoDoc, fail)
                      /\ incomes' = incomes
                 ELSE /\ incomes' = res.coll
                      /\ resp' = PutReply(q, 200, "", mem, FALSE)
  /\ UNCHANGED <<expenses, nextId, gone, hist, now>>
  /\ UNCHANGED authVars

(* Mutant: the document is looked up and left where it is. *)
FindOneAndKeep(coll, id, uid) == coll

(* Model.findOneAndDelete({ _id, createdBy }): what is left. *)
FindOneAndDelete(coll, id, uid) == coll \ FindOne(coll, id, uid)

(* DELETE /api/incomes/:id *)
IncomeDelete(cred, id, fail) ==
  /\ ExpenseIds = {}    \* a run works on one collection
  /\ IF ~AuthPasses(cred)
       THEN resp' = Unauthorized("delete", "income", cred, id)
            /\ UNCHANGED <<incomes, gone>>
       ELSE IF fail
         THEN /\ resp' = ResReply("delete", "income", cred, id, 500, "store failure",
                                  NoDoc, <<>>, TRUE)
              /\ UNCHANGED <<incomes, gone>>
         ELSE IF FindOne(incomes, id, AuthUser(cred).userId) = {}
           THEN /\ resp' = ResReply("delete", "income", cred, id, 404,
                                    "Income record not found", NoDoc, <<>>, FALSE)
                /\ UNCHANGED <<incomes, gone>>
           ELSE /\ incomes' = FindOneAndDelete(incomes, id, AuthUser(cred).userId)
                /\ gone' = gone \cup {id}
                /\ resp' = ResReply("delete", "income", cred, id, 200,
                                    "Income record deleted successfully", NoDoc, <<>>, FALSE)
  /\ UNCHANGED <<expenses, puts, nextId, hist, now>>
  /\ UNCHANGED authVars

---------------------------------------------------------------------------
(* routes/expense.js *)

(* req.body.items is text: JSON of an array of items, or nothing usable. *)
Json(x) == [t |-> "json", v |-> x]
NotJson == [t |-> "garbage", v |-> <<>>]

ItemInputs  == {[description |-> "coffee", amount |-> Num(3)],
                 [description |-> "", amount |-> Num(3)],
                 [description |-> "coffee", amount |-> Absent]}
ItemsInputs == {NotJson} \cup
               {Json(x) : x \in UNION {[1..n -> ItemInputs] : n \in 0..MaxItems}}
FilesInputs == {<<>>} \cup {<<f>> : f \in FileNames}

(* JSON.parse(req.body.items) returns, rather than throws *)
JsonParses(x) == x.t = "json"
JsonParse(x)  == x.v

(* expenseSchema: each item's description and amount are required; the    *)
(* items array itself carries no validator.  totalAmount is required.      *)
ExpenseValid(items, total) ==
  /\ \A i \in 1..Len(items) : items[i].description # "" /\ IsNumber(items[i].amount)
  /\ IsNumber(total)

(* The items as the schema casts them. *)
CastItems(items) ==
  [i \in 1..Len(items) |-> [description |-> items[i].description,
                            amount |-> items[i].amount.v]]

(* req.files.map(file => ({ path, filename })) *)
MapFiles(files) == [i \in 1..Len(files) |-> StoredFile(files[i])]

(* POST /api/expenses: the catch answers 400 whatever was thrown. *)
ExpenseCreate(cred, items, total, notes, files, fail) ==
  /\ IncomeIds = {}     \* a run works on one collection
  /\ IF ~AuthPasses(cred)
       THEN /\ resp' = Unauthorized("create", "expense", cred, 0)
            /\ UNCHANGED <<expenses, nextId, hist>>
       ELSE IF ~JsonParses(items)
         THEN /\ resp' = ResReply("create", "expense", cred, 0, 400,
                                  "Unexpected token in JSON", NoDoc, <<>>, FALSE)
              /\ UNCHANGED <<expenses, nextId, hist>>
         ELSE IF ~ExpenseValid(JsonParse(items), total)
           THEN /\ resp' = ResReply("create", "expense", cred, 0, 400,
                                    "Expense validation failed", NoDoc, <<>>, FALSE)
                /\ UNCHANGED <<expenses, nextId, hist>>
           ELSE IF fail
             THEN /\ resp' = ResReply("create", "expense", cred, 0, 400,
                                      "store failure", NoDoc, <<>>, TRUE)
                  /\ UNCHANGED <<expenses, nextId, hist>>
             ELSE LET expense == [id |-> nextId, items |-> CastItems(JsonParse(items)),
                                  totalAmount |-> total.v, notes |-> notes,
                                  createdBy |-> AuthUser(cred).userId,
                                  images |-> MapFiles(files), v |-> 0]
                  IN /\ nextId <= MaxDocs
                     /\ expenses' = expenses \cup {expense}
                     /\ nextId' = nextId + 1
                     /\ hist' = (expense.id :> [images |-> expense.images,
                                                   createdBy |-> expense.createdBy]) @@ hist
                     /\ resp' = ResReply("create", "expense", cred, expense.id, 201, "",
                                         expense, <<>>, FALSE)
  /\ UNCHANGED <<incomes, puts, gone, now>>
  /\ UNCHANGED authVars

(* GET /api/expenses *)
ExpenseList(cred, fail) ==
  /\ IncomeIds = {}     \* a run works on one collection
  /\ resp' = IF ~AuthPasses(cred) THEN Unauthorized("list", "expense", cred, 0)
             ELSE IF fail
               THEN ResReply("list", "expense", cred, 0, 500, "store failure",
                             NoDoc, <<>>, TRUE)
               ELSE ResReply("list", "expense", cred, 0, 200, "", NoDoc,
                             FindByOwner(expenses, AuthUser(cred).userId), FALSE)
  /\ UNCHANGED <<now>>
  /\ UNCHANGED resVars
  /\ UNCHANGED authVars

(* The response of GET /api/expenses/:id *)
ExpenseGetReply(cred, id, fail) ==
  IF ~AuthPasses(cred) THEN Unauthorized("get", "expense", cred, id)
  ELSE IF fail
    THEN ResReply("get", "expense", cred, id, 500, "store failure", NoDoc, <<>>, TRUE)
    ELSE LET found == FindOne(expenses, id, AuthUser(cred).userId) IN
         IF found = {}
           THEN ResReply("get", "expense", cred, id, 404, "Expense not found",
                         NoDoc, <<>>, FALSE)
           ELSE ResReply("get", "expense", cred, id, 200, "",
                         CHOOSE d \in found : TRUE, <<>>, FALSE)

(* GET /api/expenses/:id *)
ExpenseGetById(cred, id, fail) ==
  /\ IncomeIds = {}     \* a run works on one collection
  /\ resp' = ExpenseGetReply(cred, id, fail)
  /\ UNCHANGED <<now>>
  /\ UNCHANGED resVars
  /\ UNCHANGED authVars

(* PUT /api/expenses/:id up to the await of expense.save(). *)
ExpensePutFind(cred, id, fail, cap) ==
  /\ IncomeIds = {}     \* a run works on one collection
  /\ IF ~AuthPasses(cred)
       THEN resp' = Unauthorized("put", "expense", cred, id) /\ puts' = puts
       ELSE IF fail
         THEN /\ resp' = ResReply("put", "expense", cred, id, 400, "store failure",
                                  NoDoc, <<>>, TRUE)
              /\ puts' = puts
         ELSE LET found == FindOne(expenses, id, AuthUser(cred).userId) IN
              IF found = {}
                THEN /\ resp' = ResReply("put", "expense", cred, id, 404,
                                         "Expense not found", NoDoc, <<>>, FALSE)
                     /\ puts' = puts
                ELSE /\ Cardinality(puts) < cap
                     /\ puts' = puts \cup {[slot |-> FreeSlot, kind |-> "expense",
                                            user |-> AuthUser(cred).userId,
                                            doc |-> CHOOSE d \in found : TRUE]}
                     /\ resp' = resp
  /\ UNCHANGED <<incomes, expenses, nextId, gone, hist, now>>
  /\ UNCHANGED authVars

(* Whether saving mem, read as snap, sets an array path: the items array   *)
(* is cast anew on assignment (equal to the old one only when both are     *)
(* empty), images is set when files were concatenated.                     *)
SetsArray(snap, mem) ==
  ~(mem.items = <<>> /\ snap.items = <<>>) \/ mem.images # snap.images

(* Mutant: the update matches on _id alone, the last write wins. *)
ExpenseSaveUnversioned(snap, mem) ==
  LET cur == {d \in expenses : d.id = snap.id} IN
  IF mem = snap THEN [ok |-> TRUE, coll |-> expenses]
  ELSE IF cur = {} THEN [ok |-> FALSE, coll |-> expenses]
  ELSE LET c == CHOOSE d \in cur : TRUE
           n == [c EXCEPT
                   !.items = IF SetsArray(snap, mem) /\ mem.items # snap.items
                               THEN mem.items ELSE @,
                   !.totalAmount = IF mem.totalAmount # snap.totalAmount
                                     THEN mem.totalAmount ELSE @,
                   !.notes = IF mem.notes # snap.notes THEN mem.notes ELSE @,
                   !.images = IF mem.images # snap.images THEN mem.images ELSE @,
                   !.v = IF SetsArray(snap, mem) THEN @ + 1 ELSE @]
       IN [ok |-> TRUE, coll |-> (expenses \ {c}) \cup {n}]

(* expense.save() of a document read earlier: an update by _id of the      *)
(* changed paths.  The schema keeps the default versionKey, so a save that *)
(* sets an array also matches on the __v it read and increments it; no     *)
(* matching document is an error.                                          *)
ExpenseSave(snap, mem) ==
  LET cur == {d \in expenses : d.id = snap.id} IN
  IF mem = snap THEN [ok |-> TRUE, coll |-> expenses]
  ELSE IF cur = {} THEN [ok |-> FALSE, coll |-> expenses]
  ELSE LET c == CHOOSE d \in cur : TRUE IN
       IF SetsArray(snap, mem) /\ c.v # snap.v THEN [ok |-> FALSE, coll |-> expenses]
       ELSE LET n == [c EXCEPT
                        !.items = IF SetsArray(snap, mem) /\ mem.items # snap.items
                                    THEN mem.items ELSE @,
                        !.totalAmount = IF mem.totalAmount # snap.totalAmount
                                          THEN mem.totalAmount ELSE @,
                        !.notes = IF mem.notes # snap.notes THEN mem.notes ELSE @,
                        !.images = IF mem.images # snap.images THEN mem.images ELSE @,
                        !.v = IF SetsArray(snap, mem) THEN @ + 1 ELSE @]
            IN [ok |-> TRUE, coll |-> (expenses \ {c}) \cup {n}]

(* PUT /api/expenses/:id from JSON.parse on. *)
ExpensePutSave(q, items, total, notes, files, fail) ==
  /\ IncomeIds = {}     \* a run works on one collection
  /\ q \in puts /\ q.kind = "expense"
  /\ puts' = puts \ {q}
  /\ IF ~JsonParses(items)
       THEN /\ resp' = PutReply(q, 400, "Unexpected token in JSON", NoDoc, FALSE)
            /\ UNCHANGED <<expenses, hist>>
       ELSE IF ~ExpenseValid(JsonParse(items), total)
         THEN /\ resp' = PutReply(q, 400, "Expense validation failed", NoDoc, FALSE)
              /\ UNCHANGED <<expenses, hist>>
         ELSE LET mem == [q.doc EXCEPT
                            !.items = CastItems(JsonParse(items)),
                            !.totalAmount = total.v,
                            !.notes = notes,
                            !.images = IF Len(files) > 0 THEN @ \o MapFiles(files) ELSE @]
                  res == ExpenseSave(q.doc, mem)
              IN IF (fail /\ mem # q.doc) \/ ~res.ok
                   THEN /\ resp' = PutReply(q, 400, IF fail THEN "store failure"
                                                    ELSE "No matching document found",
                                            NoDoc, fail)
                        /\ UNCHANGED <<expenses, hist>>
                   ELSE /\ Len(mem.images) <= MaxImages
                        /\ SetsArray(q.doc, mem) => q.doc.v < MaxVersion
                        /\ expenses' = res.coll
                        /\ hist' = [hist EXCEPT ![q.doc.id].images = @ \o MapFiles(files)]
                        /\ resp' = PutReply(q, 200, "",
                                            [mem EXCEPT !.v = IF SetsArray(q.doc, mem)
                                                                THEN @ + 1 ELSE @],
                                            FALSE)
  /\ UNCHANGED <<incomes, nextId, gone, now>>
  /\ UNCHANGED authVars

(* DELETE /api/expenses/:id *)
ExpenseDelete(cred, id, fail) ==
  /\ IncomeIds = {}     \* a run works on one collection
  /\ IF ~AuthPasses(cred)
       THEN resp' = Unauthorized("delete", "expense", cred, id)
            /\ UNCHANGED <<expenses, gone>>
       ELSE IF fail
         THEN /\ resp' = ResReply("delete", "expense", cred, id, 500, "store failure",
                                  NoDoc, <<>>, TRUE)
              /\ UNCHANGED <<expenses, gone>>
         ELSE IF FindOne(expenses, id, AuthUser(cred).userId) = {}
           THEN /\ resp' = ResReply("delete", "expense", cred, id, 404,
                                    "Expense not found", NoDoc, <<>>, FALSE)
                /\ UNCHANGED <<expenses, gone>>
           ELSE /\ expenses' = FindOneAndDelete(expenses, id, AuthUser(cred).userId)
                /\ gone' = gone \cup {id}
                /\ resp' = ResReply("delete", "expense", cred, id, 200,
                                    "Expense deleted successfully", NoDoc, <<>>, FALSE)
  /\ UNCHANGED <<incomes, puts, nextId, hist, now>>
  /\ UNCHANGED authVars

---------------------------------------------------------------------------
(* The resource stores in use: alice and bob are registered, alice logged  *)
(* in at 0 and at 1, bob at 1, and it is now 2.                            *)

InitRes ==
  /\ users = {[id |-> 1, username |-> "alice", password |-> Hash("pw1")],
              [id |-> 2, username |-> "bob", password |-> Hash("pw2")]}
  /\ made = {[id |-> 1, username |-> "alice", password |-> "pw1"],
             [id |-> 2, username |-> "bob", password |-> "pw2"]}
  /\ regs = {}
  /\ issued = {JwtSign(1, 0), JwtSign(1, 1), JwtSign(2, 1)}
  /\ now = 2
  /\ incomes = {}
  /\ expenses = {}
  /\ puts = {}
  /\ nextId = 1
  /\ gone = {}
  /\ hist = <<>>
  /\ resp = NoResp

(* One request step of the income and expense routers; F: whether store    *)
(* calls may fail.                                                         *)
ResStep(F) ==
  \/ \E c \in Creds : \E fail \in Bodies(c, F) :
        \E a \in Tried(c, fail, AmountInputs, Num(10)), n \in Bodies(c, Notes),
           f \in Tried(c, fail, FileNames \cup {NoFile}, NoFile) :
          IncomeCreate(c, a, n, f, fail)
  \/ \E c \in Creds : \E fail \in Bodies(c, F) : IncomeList(c, fail)
  \/ \E c \in Creds : \E id \in Bodies(c, DocIds), fail \in Bodies(c, F) :
        IncomeGetById(c, id, fail)
  \/ \E c \in Creds : \E id \in Bodies(c, DocIds), fail \in Bodies(c, F) :
        IncomePutFind(c, id, fail, MaxPuts)
  \/ \E q \in puts, fail \in F, a \in AmountInputs, n \in Notes,
        f \in FileNames \cup {NoFile} : IncomePutSave(q, a, n, f, fail)
  \/ \E c \in Creds : \E id \in Bodies(c, DocIds), fail \in Bodies(c, F) :
        IncomeDelete(c, id, fail)
  \/ \E c \in Creds : \E fail \in Bodies(c, F) :
        \E i \in Tried(c, fail, ItemsInputs, Json(<<>>)),
           t \in Tried(c, fail, TotalInputs, Num(3)), n \in Bodies(c, Notes),
           f \in Tried(c, fail, FilesInputs, <<>>) :
          ExpenseCreate(c, i, t, n, f, fail)
  \/ \E c \in Creds : \E fail \in Bodies(c, F) : ExpenseList(c, fail)
  \/ \E c \in Creds : \E id \in Bodies(c, DocIds), fail \in Bodies(c, F) :
        ExpenseGetById(c, id, fail)
  \/ \E c \in Creds : \E id \in Bodies(c, DocIds), fail \in Bodies(c, F) :
        ExpensePutFind(c, id, fail, MaxPuts)
  \/ \E q \in puts, fail \in F, i \in ItemsInputs, t \in TotalInputs, n \in Notes,
        f \in FilesInputs : ExpensePutSave(q, i, t, n, f, fail)
  \/ \E c \in Creds : \E id \in Bodies(c, DocIds), fail \in Bodies(c, F) :
        ExpenseDelete(c, id, fail)

NextRes == ResStep({FALSE})
SpecRes == InitRes /\ [][NextRes]_vars

NextFault == ResStep(BOOLEAN)
SpecFault == InitRes /\ [][NextFault]_vars

(* The update race: one owner's PUTs on expenses, several in flight. *)
NextRace ==
  \/ \E c \in Creds : \E i \in Bodies(c, ItemsInputs), t \in Bodies(c, TotalInputs),
        n \in Bodies(c, Notes), f \in Bodies(c, FilesInputs) :
          ExpenseCreate(c, i, t, n, f, FALSE)
  \/ \E c \in Creds : \E id \in Bodies(c, DocIds) : ExpensePutFind(c, id, FALSE, MaxRacing)
  \/ \E q \in puts, i \in ItemsInputs, t \in TotalInputs, n \in Notes,
        f \in FilesInputs : ExpensePutSave(q, i, t, n, f, FALSE)

SpecRace == InitRes /\ [][NextRace]_vars

---------------------------------------------------------------------------
(* Properties. *)

(* The collection a reply is about. *)
Coll(kind) == IF kind = "income" THEN incomes ELSE expenses

(* What each router answers for an id that no document has. *)
NotFoundMsg(kind) == IF kind = "income" THEN "Income record not found"
                     ELSE "Expense not found"

ByIdOps == {"get", "put", "delete"}

(* C1: a getById, update or delete by a user on a document another user    *)
(* created is answered 404 with the router's not-found message and no      *)
(* document, and changes neither collection nor parks a PUT; a list        *)
(* holds only documents the requester created.                             *)
OwnershipIsolation ==
  [][ /\ ( /\ resp'.op \in ByIdOps
           /\ resp'.authed
           /\ puts' = puts
           /\ \E d \in Coll(resp'.kind) : d.id = resp'.id /\ d.createdBy # resp'.user )
         => ( /\ resp'.status = 404
              /\ resp'.msg = NotFoundMsg(resp'.kind)
              /\ resp'.doc = NoDoc
              /\ incomes' = incomes
              /\ expenses' = expenses )
      /\ (resp'.op = "list" /\ resp'.status = 200)
         => \A i \in 1..Len(resp'.list) : resp'.list[i].createdBy = resp'.user
      /\ \A q \in puts' : q.doc.createdBy = q.user
    ]_vars

(* C1 witness: bob's (or alice's) DELETE of the other's expense came back 404. *)
ForeignDeleteRefused ==
  /\ resp.op = "delete" /\ resp.kind = "expense" /\ resp.authed /\ resp.status = 404
  /\ \E d \in expenses : d.id = resp.id /\ d.createdBy # resp.user

(* C2 as claimed: every operation but create-first-user and login answers *)
(* 401 to a request without a token that verifies.                         *)
GuardOnEveryProtectedRoute ==
  (resp.op \notin {"none", "create-first-user", "login"} /\ ~resp.authed)
    => resp.status = 401

(* C3 as claimed: change-password with a valid token of an existing user   *)
(* and the right current password answers 200, after which login with the  *)
(* new password succeeds and with the old one fails, and no token is       *)
(* withdrawn.                                                              *)
ChangePasswordTakesEffect ==
  [][ \A c \in Creds, cur \in Passwords, new \in Passwords :
        ( /\ ChangePassword(c, cur, new)
          /\ JwtVerify(c, now)
          /\ \E x \in users : x.id = c.userId /\ BcryptCompare(cur, x.password) )
        => ( /\ resp'.status = 200
             /\ \A x \in users :
                  x.id = c.userId =>
                    /\ \E y \in users' : /\ y.id = x.id
                                         /\ BcryptCompare(new, y.password)
                                         /\ (cur # new => ~BcryptCompare(cur, y.password))
             /\ issued' = issued )
    ]_vars

(* C4 as claimed: at most one user per username, and every                 *)
(* create-first-user that created nothing is answered "User already        *)
(* exists".                                                                *)
UsernameUniqueOrConflict ==
  /\ \A x \in users, y \in users : x.username = y.username => x = y
  /\ (resp.op = "create-first-user" /\ resp.status # 201)
       => (resp.status = 400 /\ resp.msg = "User already exists")

(* C5: login with the credentials of a create-first-user that was answered *)
(* 201 answers 200 with a token of the server for the id of the user that  *)
(* request created, expiring TokenLifetime after the login.                *)
RegisterThenLogin ==
  \A m \in made :
    (resp.op = "login" /\ resp.username = m.username /\ resp.password = m.password)
      => /\ resp.status = 200
         /\ resp.token = [kind |-> "jwt", userId |-> m.id, iat |-> resp.at,
                          exp |-> resp.at + TokenLifetime, sig |-> "server"]
         /\ \E x \in users : x.id = m.id /\ x.username = m.username

(* C5 witness: bob, registered second, logged in after alice had. *)
SecondUserLoggedIn ==
  /\ resp.op = "login" /\ resp.status = 200 /\ resp.token.userId = 2
  /\ \E m \in made : m.id = 2 /\ m.username = resp.username
  /\ \E tok \in issued : tok.userId = 1

(* A login whose credentials are not those of a stored user. *)
BadCredentials(u, p) ==
  \A x \in users : x.username = u => ~BcryptCompare(p, x.password)

(* C6: a login with an unknown username and one with a wrong password are  *)
(* answered alike: 401, "Invalid credentials", no token, nothing stored or *)
(* issued.                                                                 *)
LoginTellsNothing ==
  [][ \A u \in Usernames, p \in Passwords :
        (Login(u, p) /\ BadCredentials(u, p))
          => ( /\ resp'.status = 401
               /\ resp'.msg = "Invalid credentials"
               /\ resp'.token = NoCred
               /\ users' = users
               /\ issued' = issued )
    ]_vars

(* C6 witness: both kinds of failure are possible for the stored users: a  *)
(* wrong password for alice was refused while bob is unknown.              *)
WrongPasswordRefused ==
  /\ resp.op = "login" /\ resp.status = 401
  /\ \E x \in users : x.username = resp.username
  /\ \E u \in Usernames : FindUserByName(u) = {}

(* C7: a DELETE answered 200 removed exactly the requester's document of   *)
(* that id; an id so removed is in no collection again, every later GET,   *)
(* PUT lookup and DELETE of it by anyone is answered 404, and no list      *)
(* holds it.                                                               *)
DeleteIsFinal ==
  [][ /\ (resp'.op = "delete" /\ resp'.status = 200 /\ resp' # resp)
         => /\ \E d \in Coll(resp'.kind) :
                 /\ d.id = resp'.id /\ d.createdBy = resp'.user
                 /\ incomes' \cup expenses' = (incomes \cup expenses) \ {d}
            /\ resp'.id \in gone'
      /\ ( /\ resp'.op = "delete" /\ resp'.authed /\ puts' = puts
           /\ \E d \in Coll(resp'.kind) : d.id = resp'.id /\ d.createdBy = resp'.user )
         => resp'.status = 200
      /\ \A d \in incomes' \cup expenses' : d.id \notin gone'
      /\ gone \subseteq gone'
      /\ (resp'.op \in ByIdOps /\ resp'.authed /\ puts' = puts /\ resp'.id \in gone)
         => (resp'.status = 404 /\ resp'.doc = NoDoc)
      /\ (resp'.op = "list" /\ resp'.status = 200)
         => \A i \in 1..Len(resp'.list) : resp'.list[i].id \notin gone'
    ]_vars

(* C7 witness: document 1 was deleted, document 2 created, and a PUT of 1  *)
(* was then answered 404.                                                  *)
PutAfterDeleteRefused ==
  /\ 1 \in gone
  /\ \E d \in incomes \cup expenses : d.id = 2
  /\ resp.op = "put" /\ resp.id = 1 /\ resp.status = 404

(* C8 as claimed: an expense is created only with a non-empty sequence of  *)
(* complete items and a totalAmount.                                       *)
ExpenseCreatedOnlyWithItems ==
  (resp.op = "create" /\ resp.kind = "expense" /\ resp.status = 201)
    => /\ Len(resp.doc.items) > 0
       /\ \A i \in 1..Len(resp.doc.items) : resp.doc.items[i].description # ""
       /\ resp.doc.totalAmount > 0

(* C9 as claimed: a store call that fails is answered 500. *)
StoreFailureIs500 == resp.fault => resp.status = 500

===========================================================================
